---- MODULE Spec2Model ----
(***************************************************************************)
(* A model of logaroo's Logger (src/src/logaroo/logger.py): the level      *)
(* registry, the threshold, message formatting, per-level dispatch,        *)
(* add_level and log_to_all_levels.                                        *)
(*                                                                         *)
(* Strings are sequences of tokens: a token is a run of literal text, a    *)
(* markup tag such as "[green]", or, in a template, a replacement field    *)
(* such as "{message}".  A dict is a sequence of [key, val] pairs in       *)
(* insertion order, as a Python dict is.                                   *)
(***************************************************************************)
EXTENDS Integers, Sequences, FiniteSets, TLC

VARIABLES
    levels,     \* self.levels: dict, lowercase name -> Level
    log_funcs,  \* self._log_funcs: dict, lowercase name -> level name bound in the closure
    level,      \* self._level: the threshold name
    template,   \* self._template: the layout template, as the constructor set it
    events,     \* what the last call did, in order: lazy calls, console prints, raises
    raised,     \* the exception the last call ended with, kind "none" if it returned
    last,       \* the last call: its operation, its name argument, its other arguments
    adds,       \* number of add_level calls made so far
    pending,    \* concurrent add_level: the value _update_levels is about to return
    pcAdd,      \* concurrent add_level: position of the adding thread
    handle      \* concurrent reader: the level name bound in the callable it obtained

vars == <<levels, log_funcs, level, template, events, raised, last, adds,
          pending, pcAdd, handle>>

-----------------------------------------------------------------------------
(* Bounds *)

MaxAdds == 1

-----------------------------------------------------------------------------
(* Strings: str.lower(), str.upper(), and the code point order of the      *)
(* strings that occur.                                                      *)

Lower(s) ==
    CASE s = "Info"  -> "info"
      [] s = "DeBUg" -> "debug"
      [] OTHER       -> s

Upper(s) ==
    CASE s = "trace"    -> "TRACE"
      [] s = "debug"    -> "DEBUG"
      [] s = "DeBUg"    -> "DEBUG"
      [] s = "info"     -> "INFO"
      [] s = "Info"     -> "INFO"
      [] s = "success"  -> "SUCCESS"
      [] s = "warning"  -> "WARNING"
      [] s = "error"    -> "ERROR"
      [] s = "critical" -> "CRITICAL"
      [] s = "time"     -> "TIME"
      [] s = "nonexistent" -> "NONEXISTENT"
      [] OTHER          -> s

\* Position of a string in the code point order Python compares str by.
StrOrder ==
    << "Info",
       "[blue]", "[cyan]", "[green]", "[red]", "[white on red]", "[white]", "[yellow]",
       "critical", "debug", "error", "info", "success", "time", "trace", "warning",
       "INFORMATION SOURCE", "ALARM CLOCK", "SKULL AND CROSSBONES", "WARNING SIGN",
       "WHITE HEAVY CHECK MARK", "PENCIL", "CROSS MARK", "LADY BEETLE" >>

StrRank(s) == CHOOSE i \in 1..Len(StrOrder) : StrOrder[i] = s

StrLess(a, b) == StrRank(a) < StrRank(b)

\* A markup tag the console interprets.
IsMarkup(tok) ==
    tok \in {"[blue]", "[cyan]", "[green]", "[red]", "[white on red]", "[white]",
             "[yellow]", "[/]"}

HasMarkup(str) == \E i \in 1..Len(str) : IsMarkup(str[i])

-----------------------------------------------------------------------------
(* Level and DEFAULT_LEVELS *)

Level(no, name, color, icon, raise_error) ==
    [no |-> no, name |-> name, color |-> color, icon |-> icon,
     raise_error |-> raise_error]

DEFAULT_LEVELS ==
    << Level(5,  "trace",    "[cyan]",         "PENCIL", FALSE),
       Level(10, "debug",    "[blue]",         "LADY BEETLE", FALSE),
       Level(20, "info",     "[white]",        "INFORMATION SOURCE", FALSE),
       Level(25, "success",  "[green]",        "WHITE HEAVY CHECK MARK", FALSE),
       Level(30, "warning",  "[yellow]",       "WARNING SIGN", FALSE),
       Level(40, "error",    "[red]",          "CROSS MARK", FALSE),
       Level(50, "critical", "[white on red]", "SKULL AND CROSSBONES", TRUE) >>

\* The order of @dataclass(order=True): the fields compared as a tuple.
LevelLess(a, b) ==
    IF a.no # b.no THEN a.no < b.no
    ELSE IF a.name # b.name THEN StrLess(a.name, b.name)
    ELSE IF a.color # b.color THEN StrLess(a.color, b.color)
    ELSE IF a.icon # b.icon THEN StrLess(a.icon, b.icon)
    ELSE ~a.raise_error /\ b.raise_error

\* The place of s[i] in sorted(s): after every smaller element and after the
\* equal ones that come before it (the sort is stable).
SortedPos(s, i) ==
    1 + Cardinality({j \in 1..Len(s) :
                        \/ LevelLess(s[j], s[i])
                        \/ j < i /\ ~LevelLess(s[i], s[j])})

\* sorted(levels): ascending.
sorted(s) ==
    LET pos == [i \in 1..Len(s) |-> SortedPos(s, i)]
    IN  [p \in 1..Len(s) |-> s[CHOOSE i \in 1..Len(s) : pos[i] = p]]

-----------------------------------------------------------------------------
(* dict *)

Keys(d) == [i \in 1..Len(d) |-> d[i].key]

KeySet(d) == {d[i].key : i \in 1..Len(d)}

Values(d) == [i \in 1..Len(d) |-> d[i].val]

Has(d, k) == k \in KeySet(d)

Get(d, k) == d[CHOOSE i \in 1..Len(d) : d[i].key = k].val

\* {key(x): val(x) for x in items}, items given as [key, val] pairs: a key
\* stands where it first occurs and holds the value of its last occurrence.
DictOf(items) ==
    LET first == {i \in 1..Len(items) : \A j \in 1..(i - 1) : items[j].key # items[i].key}
        at == [p \in 1..Cardinality(first) |->
                 CHOOSE i \in first : Cardinality({j \in first : j <= i}) = p]
        lastOf == [i \in first |->
                     CHOOSE j \in 1..Len(items) :
                        /\ items[j].key = items[i].key
                        /\ \A k \in (j + 1)..Len(items) : items[k].key # items[i].key]
    IN  [p \in 1..Cardinality(first) |->
            [key |-> items[at[p]].key, val |-> items[lastOf[at[p]]].val]]

-----------------------------------------------------------------------------
(* Logger._update_levels and Logger._create_log_func *)

\* The closure _create_log_func returns, as the level name it is bound to.
_create_log_func(lv) == lv

\* The dict comprehension assigned to self._log_funcs.
LogFuncsOf(ls) ==
    DictOf([i \in 1..Len(ls) |->
              [key |-> Lower(ls[i].name), val |-> _create_log_func(Lower(ls[i].name))]])

\* The dict comprehension _update_levels returns: a later level of the same
\* lowercase name replaces an earlier one.
LevelDictOf(ls) ==
    DictOf([i \in 1..Len(ls) |-> [key |-> Lower(ls[i].name), val |-> ls[i]]])

\* _update_levels(levels): the new self._log_funcs and the returned dict.
_update_levels(ls) ==
    [log_funcs |-> LogFuncsOf(sorted(ls)), levels |-> LevelDictOf(sorted(ls))]

\* _get_level_cfg(level); the caller checks Has first: a miss is a KeyError,
\* written here with the message <<"levels", key>>.
_get_level_cfg(d, lv) == Get(d, Lower(lv))

\* __dir__: the level names listed among the attributes.
dir(funcs) == KeySet(funcs)

-----------------------------------------------------------------------------
(* str.format and Logger._format_message *)

\* The replacement field a template token stands for, "" for literal text.
\* The padding of {level:<8} adds blanks only and is not represented.
Field(tok) ==
    CASE tok = "{message}"  -> "message"
      [] tok = "{level:<8}" -> "level"
      [] tok = "{no}"       -> "no"
      [] tok = "{color}"    -> "color"
      [] tok = "{icon}"     -> "icon"
      [] tok = "{time}"     -> "time"
      [] tok = "{elapsed}"  -> "elapsed"
      [] tok = "{name}"     -> "name"
      [] tok = "{x}"        -> "x"
      [] tok = "{missing}"  -> "missing"
      [] OTHER              -> ""

RECURSIVE Concat(_, _)
\* The strings parts[i..] joined.
Concat(parts, i) ==
    IF i > Len(parts) THEN <<>> ELSE parts[i] \o Concat(parts, i + 1)

\* tpl.format(**args): every field replaced by its argument; a field with no
\* argument is a KeyError naming the field (ok = FALSE, out the field's name).
StrFormat(tpl, args) ==
    LET missing == {i \in 1..Len(tpl) : Field(tpl[i]) # "" /\ ~Has(args, Field(tpl[i]))}
        parts == [i \in 1..Len(tpl) |->
                    IF Field(tpl[i]) = "" THEN <<tpl[i]>> ELSE Get(args, Field(tpl[i]))]
    IN  IF missing = {}
        THEN [ok |-> TRUE, out |-> Concat(parts, 1)]
        ELSE [ok |-> FALSE,
              out |-> <<Field(tpl[CHOOSE i \in missing : \A j \in missing : i <= j])>>]

CallEvent(key) == [ev |-> "call", kind |-> "", data |-> <<key>>]

PrintEvent(line) == [ev |-> "print", kind |-> "", data |-> line]

RaiseEvent(kind, msg) == [ev |-> "raise", kind |-> kind, data |-> msg]

NoError == [kind |-> "none", msg |-> <<>>]

Error(kind, msg) == [kind |-> kind, msg |-> msg]

\* kwargs is a sequence of [key, lazy, val]: a lazy value is a callable returning val.
LazyCalls(kwargs) ==
    SelectSeq([i \in 1..Len(kwargs) |-> IF kwargs[i].lazy THEN CallEvent(kwargs[i].key)
                                        ELSE CallEvent("")],
              LAMBDA e : e.data # <<"">>)

FormatArgs(kwargs) == [i \in 1..Len(kwargs) |-> [key |-> kwargs[i].key, val |-> <<kwargs[i].val>>]]

\* _format_message(message, level_cfg, keep_markup=..., **kwargs) with
\* self.template = tpl.  keep_markup is accepted and not used.
_format_message(tpl, message, level_cfg, keep_markup, kwargs) ==
    LET msg == StrFormat(message, FormatArgs(kwargs))
        fields == << [key |-> "message", val |-> msg.out],
                     [key |-> "level",   val |-> <<Upper(level_cfg.name)>>],
                     [key |-> "no",      val |-> <<ToString(level_cfg.no)>>],
                     [key |-> "color",   val |-> <<level_cfg.color>>],
                     [key |-> "icon",    val |-> <<level_cfg.icon>>],
                     [key |-> "time",    val |-> <<"<now>">>],
                     [key |-> "elapsed", val |-> <<"<elapsed>">>] >>
        line == StrFormat(tpl, fields)
    IN  [calls |-> LazyCalls(kwargs),
         ok    |-> msg.ok /\ line.ok,
         out   |-> IF msg.ok THEN line.out ELSE msg.out]

-----------------------------------------------------------------------------
(* Logger.log *)

\* A threshold check that lets every level through.
PermittedAlways(cfg, cur) == TRUE

\* is_enabled: the threshold check of log.
Permitted(cfg, cur) == ~(cfg.no < cur.no)

\* A log that escalates before it prints.
EmitRaiseFirst(tpl, cfg, message, kwargs) ==
    LET first == _format_message(tpl, message, cfg, TRUE, kwargs)
    IN  IF ~first.ok
        THEN [events |-> first.calls \o <<RaiseEvent("KeyError", first.out)>>,
              raised |-> Error("KeyError", first.out)]
        ELSE IF ~cfg.raise_error
        THEN [events |-> first.calls \o <<PrintEvent(first.out)>>,
              raised |-> NoError]
        ELSE [events |-> first.calls \o <<RaiseEvent("LogarooError", first.out)>>,
              raised |-> Error("LogarooError", first.out)]

\* What log does once the level passed the threshold: print, then escalate.
Emit(tpl, cfg, message, kwargs) ==
    LET first == _format_message(tpl, message, cfg, TRUE, kwargs)
        again == _format_message(tpl, message, cfg, FALSE, kwargs)
    IN  IF ~first.ok
        THEN [events |-> first.calls \o <<RaiseEvent("KeyError", first.out)>>,
              raised |-> Error("KeyError", first.out)]
        ELSE IF ~cfg.raise_error
        THEN [events |-> first.calls \o <<PrintEvent(first.out)>>,
              raised |-> NoError]
        ELSE IF ~again.ok
        THEN [events |-> first.calls \o <<PrintEvent(first.out)>> \o again.calls
                         \o <<RaiseEvent("KeyError", again.out)>>,
              raised |-> Error("KeyError", again.out)]
        ELSE [events |-> first.calls \o <<PrintEvent(first.out)>> \o again.calls
                         \o <<RaiseEvent("LogarooError", again.out)>>,
              raised |-> Error("LogarooError", again.out)]

\* log(lv, message, **kwargs) in a logger with registry d, threshold cur and
\* layout template tpl: the events of the call and the error it ends with.
log(d, cur, tpl, lv, message, kwargs) ==
    IF ~Has(d, Lower(lv))
    THEN [events |-> <<RaiseEvent("KeyError", <<"levels", Lower(lv)>>)>>,
          raised |-> Error("KeyError", <<"levels", Lower(lv)>>)]
    ELSE IF ~Has(d, Lower(cur))
    THEN [events |-> <<RaiseEvent("KeyError", <<"levels", Lower(cur)>>)>>,
          raised |-> Error("KeyError", <<"levels", Lower(cur)>>)]
    ELSE LET cfg == _get_level_cfg(d, lv)
         IN  IF ~Permitted(cfg, _get_level_cfg(d, cur))
             THEN [events |-> <<>>, raised |-> NoError]
             ELSE Emit(tpl, cfg, message, kwargs)

-----------------------------------------------------------------------------
(* Inputs *)

\* The layout template of the module-wide logger (src/src/logaroo/__init__.py).
DefaultTemplate ==
    <<"[green]", "{time}", "[/]", " | ", "{level:<8}", " | ", "{color}", "{icon}",
      " ", "{message}">>

LazyX == <<[key |-> "x", lazy |-> TRUE, val |-> "1"]>>

\* The (message, kwargs) pairs of the log calls: a plain message, a message
\* with a lazy argument, and a message whose argument is missing.
LogArgs ==
    { [message |-> <<"test">>,        kwargs |-> <<>>],
      [message |-> <<"x=", "{x}">>,   kwargs |-> LazyX],
      [message |-> <<"x=", "{x}">>,   kwargs |-> <<>>] }

\* The default template of log_to_all_levels, and one with an unknown field.
SweepDefault == <<"Log with logger.", "{name}", "() (", "{no}", ")">>

SweepTemplates == { SweepDefault, <<"Log with ", "{missing}">> }

\* The levels add_level is called with: a new name and a registered one, each
\* numbered below, among and above the default levels.
AddInputs ==
    { Level(3,  "time", "[cyan]", "ALARM CLOCK", FALSE),
      Level(20, "time", "[cyan]", "ALARM CLOCK", TRUE),
      Level(60, "time", "[cyan]", "ALARM CLOCK", FALSE),
      Level(3,  "Info", "[cyan]", "ALARM CLOCK", FALSE),
      Level(20, "Info", "[cyan]", "ALARM CLOCK", FALSE),
      Level(60, "Info", "[cyan]", "ALARM CLOCK", TRUE) }

OtherNames == {"DeBUg", "Info", "nonexistent"}

CtorLevels == { DEFAULT_LEVELS, <<DEFAULT_LEVELS[3], DEFAULT_LEVELS[7]>>, <<>> }

CtorLevelNames == {"info", "DeBUg", "nonexistent"}

NoLevel == Level(0, "", "", "", FALSE)

Call(op, name, arg) == [op |-> op, name |-> name, arg |-> arg]

-----------------------------------------------------------------------------
(* Logger.__init__ *)

\* A setter check that forgets to lowercase the name.
LevelKnownCaseSensitive(d, n) == Has(d, n)

\* A setter that checks nothing.
LevelKnownAlways(d, n) == TRUE

\* The level setter's check.
LevelKnown(d, n) == Has(d, Lower(n))

\* The ValueError of the level setter: it lists the registry's keys.
UnknownLevel(d, n) == Error("ValueError", <<"unknown level '", n, "'. Use one of ">> \o Keys(d))

\* Logger(level=lv, template=DefaultTemplate, levels=ls): the constructor
\* returns only if the level setter accepts lv.
Init ==
    \E ls \in CtorLevels, lv \in CtorLevelNames :
    \E u \in {_update_levels(ls)} :
        /\ LevelKnown(u.levels, lv)
        /\ levels = u.levels
        /\ log_funcs = u.log_funcs
        /\ level = Lower(lv)
        /\ template = DefaultTemplate
        /\ events = <<>>
        /\ raised = NoError
        /\ last = Call("init", lv, NoLevel)
        /\ adds = 0
        /\ pending = <<>>
        /\ pcAdd = "idle"
        /\ handle = ""

-----------------------------------------------------------------------------
(* The level setter *)

\* logger.level = n
SetLevel(n) ==
    /\ IF LevelKnown(levels, n)
       THEN level' = Lower(n) /\ raised' = NoError /\ events' = <<>>
       ELSE /\ level' = level
            /\ raised' = UnknownLevel(levels, n)
            /\ events' = <<RaiseEvent("ValueError", UnknownLevel(levels, n).msg)>>
    /\ last' = Call("set_level", n, NoLevel)
    /\ UNCHANGED <<levels, log_funcs, template, adds, pending, pcAdd, handle>>

-----------------------------------------------------------------------------
(* log and the per-level callables *)

\* logger.log(lv, message, **kwargs)
Log(lv, message, kwargs) ==
    /\ \E r \in {log(levels, level, template, lv, message, kwargs)} :
            events' = r.events /\ raised' = r.raised
    /\ last' = Call("log", lv, [message |-> message, kwargs |-> kwargs])
    /\ UNCHANGED <<levels, log_funcs, level, template, adds, pending, pcAdd, handle>>

\* __getattr__(attr) followed by a call of what it returned: logger.attr(message, **kwargs)
CallLevel(attr, message, kwargs) ==
    /\ IF Has(log_funcs, attr)
       THEN \E r \in {log(levels, level, template, Get(log_funcs, attr), message, kwargs)} :
                events' = r.events /\ raised' = r.raised
       ELSE /\ events' = <<RaiseEvent("AttributeError", <<attr>>)>>
            /\ raised' = Error("AttributeError", <<attr>>)
    /\ last' = Call("call", attr, [message |-> message, kwargs |-> kwargs])
    /\ UNCHANGED <<levels, log_funcs, level, template, adds, pending, pcAdd, handle>>

-----------------------------------------------------------------------------
(* add_level *)

\* An add_level that leaves out the levels registered so far.
WithLevelOnly(d, new) == <<new>>

\* The list add_level hands to _update_levels: the new level first.
WithLevel(d, new) == <<new>> \o Values(d)

\* logger.add_level(name, no, color, icon, raise_error=raise_error)
AddLevel(name, no, color, icon, raise_error) ==
    /\ adds < MaxAdds
    /\ adds' = adds + 1
    /\ \E u \in {_update_levels(WithLevel(levels, Level(no, name, color, icon, raise_error)))} :
            levels' = u.levels /\ log_funcs' = u.log_funcs
    /\ events' = <<>>
    /\ raised' = NoError
    /\ last' = Call("add_level", name, Level(no, name, color, icon, raise_error))
    /\ UNCHANGED <<level, template, pending, pcAdd, handle>>

-----------------------------------------------------------------------------
(* log_to_all_levels *)

\* The threshold log_to_all_levels sets for the sweep.
SweepLevel == "trace"

SweepKwargs(lv) ==
    << [key |-> "name", lazy |-> FALSE, val |-> lv.name],
       [key |-> "no",   lazy |-> FALSE, val |-> ToString(lv.no)] >>

\* The loop of log_to_all_levels over ls: LogarooError is suppressed, any
\* other error ends the loop and propagates.
Sweep(d, tpl, message, ls) ==
    LET r == [i \in 1..Len(ls) |->
                log(d, SweepLevel, tpl, ls[i].name, message, SweepKwargs(ls[i]))]
        failed == {i \in 1..Len(ls) : r[i].raised.kind \notin {"none", "LogarooError"}}
        stop == IF failed = {} THEN Len(ls)
                ELSE CHOOSE i \in failed : \A j \in failed : i <= j
    IN  [events |-> Concat([i \in 1..stop |-> r[i].events], 1),
         raised |-> IF failed = {} THEN NoError ELSE r[stop].raised]

\* The threshold after log_to_all_levels: restored by the last statement,
\* which an error that left the loop does not reach.
LevelAfterSweep(before, r) == IF r.raised.kind = "none" THEN before ELSE SweepLevel

\* logger.log_to_all_levels(message)
LogToAllLevels(message) ==
    /\ IF ~LevelKnown(levels, SweepLevel)
       THEN /\ level' = level
            /\ raised' = UnknownLevel(levels, SweepLevel)
            /\ events' = <<RaiseEvent("ValueError", UnknownLevel(levels, SweepLevel).msg)>>
       ELSE \E ls \in {sorted(Values(levels))} :
            \E r \in {Sweep(levels, template, message, ls)} :
                /\ level' = LevelAfterSweep(level, r)
                /\ raised' = r.raised
                /\ events' = r.events
    /\ last' = Call("log_to_all_levels", "", message)
    /\ UNCHANGED <<levels, log_funcs, template, adds, pending, pcAdd, handle>>

-----------------------------------------------------------------------------
(* The logger used from one thread *)

Next ==
    \/ \E n \in KeySet(levels) \cup OtherNames : SetLevel(n)
    \/ \E lv \in KeySet(levels) \cup OtherNames, a \in LogArgs :
            Log(lv, a.message, a.kwargs)
    \/ \E attr \in KeySet(log_funcs) \cup OtherNames :
            CallLevel(attr, <<"test">>, <<>>)
    \/ \E l \in AddInputs :
            AddLevel(l.name, l.no, l.color, l.icon, l.raise_error)
    \/ \E m \in SweepTemplates : LogToAllLevels(m)

Spec == Init /\ [][Next]_vars

-----------------------------------------------------------------------------
(* add_level running in one thread while other threads use the logger.     *)
(* add_level is two assignments: _update_levels assigns self._log_funcs    *)
(* and returns the new dict, which add_level then assigns to self.levels.  *)
(* A reader's logger.name(...) is two steps as well: __getattr__ returns   *)
(* the callable, then the callable runs log.                               *)

\* add_level, up to the return of _update_levels.
AddLevelUpdate(name, no, color, icon, raise_error) ==
    /\ pcAdd = "idle"
    /\ adds < MaxAdds
    /\ adds' = adds + 1
    /\ \E u \in {_update_levels(WithLevel(levels, Level(no, name, color, icon, raise_error)))} :
            log_funcs' = u.log_funcs /\ pending' = u.levels
    /\ pcAdd' = "assign"
    /\ last' = Call("add_level", name, Level(no, name, color, icon, raise_error))
    /\ UNCHANGED <<levels, level, template, events, raised, handle>>

\* add_level: self.levels = <the returned dict>.
AddLevelAssign ==
    /\ pcAdd = "assign"
    /\ levels' = pending
    /\ pending' = <<>>
    /\ pcAdd' = "idle"
    /\ last' = Call("add_level_done", last.name, last.arg)
    /\ UNCHANGED <<log_funcs, level, template, events, raised, adds, handle>>

\* The reader's __getattr__(attr).
GetAttr(attr) ==
    /\ handle = ""
    /\ IF Has(log_funcs, attr)
       THEN handle' = Get(log_funcs, attr) /\ events' = <<>> /\ raised' = NoError
       ELSE /\ handle' = ""
            /\ events' = <<RaiseEvent("AttributeError", <<attr>>)>>
            /\ raised' = Error("AttributeError", <<attr>>)
    /\ last' = Call("getattr", attr, NoLevel)
    /\ UNCHANGED <<levels, log_funcs, level, template, adds, pending, pcAdd>>

\* The reader calls the callable it obtained.
CallHandle(message, kwargs) ==
    /\ handle # ""
    /\ \E r \in {log(levels, level, template, handle, message, kwargs)} :
            events' = r.events /\ raised' = r.raised
    /\ handle' = ""
    /\ last' = Call("call", handle, [message |-> message, kwargs |-> kwargs])
    /\ UNCHANGED <<levels, log_funcs, level, template, adds, pending, pcAdd>>

NextConc ==
    \/ \E l \in AddInputs :
            AddLevelUpdate(l.name, l.no, l.color, l.icon, l.raise_error)
    \/ AddLevelAssign
    \/ \E attr \in KeySet(log_funcs) \cup OtherNames : GetAttr(attr)
    \/ \E a \in LogArgs : CallHandle(a.message, a.kwargs)
    \/ \E n \in KeySet(levels) \cup OtherNames : SetLevel(n)

SpecConc == Init /\ [][NextConc]_vars

-----------------------------------------------------------------------------
(* Properties.  An action property speaks of one call: last' names the     *)
(* call, the unprimed variables are the logger before it, the primed ones  *)
(* the logger after it.                                                    *)

Prints(ev) == {i \in 1..Len(ev) : ev[i].ev = "print"}

LazyInvocations(ev) == {i \in 1..Len(ev) : ev[i].ev = "call"}

Raises(ev) == {i \in 1..Len(ev) : ev[i].ev = "raise"}

Mentions(str, tok) == \E i \in 1..Len(str) : str[i] = tok

\* The step is log(L, ...) for a registered level L.
LogStep == last'.op = "log" /\ Has(levels, Lower(last'.name))

\* The level and the threshold of that call: L.number and T.number.
CalledNo == Get(levels, Lower(last'.name)).no

ThresholdNo == Get(levels, level).no

\* C1: a log call at a registered level numbered below the threshold has no
\* effect: no console call, no lazy argument invoked, no error, also at an
\* escalating level; hence a call that emits has L.number >= T.number.
C1_BelowThresholdSilent ==
    [][(LogStep /\ CalledNo < ThresholdNo)
          => (events' = <<>> /\ raised' = NoError)]_vars

\* C1's case: an escalating level logged below the threshold with a lazy argument.
C1_Witness ==
    /\ last.op = "log"
    /\ Has(levels, Lower(last.name))
    /\ Get(levels, Lower(last.name)).raise_error
    /\ Get(levels, Lower(last.name)).no < Get(levels, level).no
    /\ last.arg.kwargs = LazyX
    /\ events = <<>>

\* The message and the layout template format without error: every field has
\* an argument.
FormatSucceeds ==
    /\ \A i \in 1..Len(last'.arg.message) :
          \/ Field(last'.arg.message[i]) = ""
          \/ \E j \in 1..Len(last'.arg.kwargs) :
                last'.arg.kwargs[j].key = Field(last'.arg.message[i])
    /\ \A i \in 1..Len(template) :
          Field(template[i]) \in {"", "message", "level", "no", "color", "icon",
                                  "time", "elapsed"}

\* Exactly one console call; at an escalating level the LogarooError is raised
\* after it, at any other level no error is raised.
EmitsOnceThenEscalates ==
    /\ Cardinality(Prints(events')) = 1
    /\ IF Get(levels, Lower(last'.name)).raise_error
       THEN /\ raised'.kind = "LogarooError"
            /\ Raises(events') = {Len(events')}
            /\ \A i \in Prints(events') : i < Len(events')
       ELSE /\ raised' = NoError
            /\ Raises(events') = {}

C3_SetLevel ==
    [][last'.op = "set_level"
          => IF Lower(last'.name) \in KeySet(levels)
             THEN raised' = NoError /\ level' = Lower(last'.name)
             ELSE /\ raised'.kind = "ValueError"
                  /\ \A k \in KeySet(levels) : Mentions(raised'.msg, k)
                  /\ level' = level]_vars

\* C3's case: a failed set after a level was added, the old threshold kept.
C3_Witness ==
    /\ last.op = "set_level"
    /\ last.name = "nonexistent"
    /\ raised.kind = "ValueError"
    /\ Has(levels, "time")
    /\ Mentions(raised.msg, "time")
    /\ level = "debug"

\* The step is add_level(name, ...), and whether name was registered before.
AddStep == last'.op = "add_level"

AddedKey == Lower(last'.name)

\* C4: after add_level with a name not registered before, the name is a
\* registry key, has a callable that behaves as log(name, ...), is listed by
\* dir and by the unknown-level error, is accepted as a threshold, and every
\* level registered before is registered still, unchanged.
C4_AddNewLevel ==
    [][(AddStep /\ ~Has(levels, AddedKey))
          => /\ Has(levels', AddedKey)
             /\ Get(levels', AddedKey) = last'.arg
             /\ Has(log_funcs', AddedKey)
             /\ \A a \in LogArgs :
                   log(levels', level', template', Get(log_funcs', AddedKey),
                       a.message, a.kwargs)
                   = log(levels', level', template', last'.name, a.message, a.kwargs)
             /\ AddedKey \in dir(log_funcs')
             /\ Mentions(UnknownLevel(levels', "nonexistent").msg, AddedKey)
             /\ LevelKnown(levels', last'.name)
             /\ \A k \in KeySet(levels) :
                   Has(levels', k) /\ Get(levels', k) = Get(levels, k)]_vars

\* C4's case: "time" added to a logger that did not have it.
C4_Witness ==
    /\ last.op = "add_level"
    /\ last.name = "time"
    /\ adds = 1
    /\ Has(levels, "time")
    /\ Has(log_funcs, "time")
    /\ Has(levels, "critical")

\* C5: log_to_all_levels leaves the threshold as it was before the call, on
\* every exit path.
C5_SweepRestoresLevel ==
    [][last'.op = "log_to_all_levels" => level' = level]_vars

\* C6: a log_to_all_levels that ends without error has emitted exactly one
\* line for each registered level.
C6_SweepEmitsEveryLevel ==
    (last.op = "log_to_all_levels" /\ raised = NoError)
        => /\ Cardinality(Prints(events)) = Len(levels)
           /\ \A i \in 1..Len(levels) :
                 \E j \in Prints(events) :
                    Mentions(events[j].data, Upper(levels[i].val.name))

\* C7: the message of the escalation error carries no markup tag, while the
\* line printed by the same call keeps the tags.
C7_ErrorMessageIsClean ==
    (last.op = "log" /\ raised.kind = "LogarooError")
        => /\ ~HasMarkup(raised.msg)
           /\ \A i \in Prints(events) : HasMarkup(events[i].data)

\* C8: after add_level with a name that is registered already, the registry
\* has one entry for the name, and it is the level just added.
C8_NewestDuplicateWins ==
    [][(AddStep /\ Has(levels, AddedKey))
          => /\ Cardinality({i \in 1..Len(levels') : levels'[i].key = AddedKey}) = 1
             /\ Get(levels', AddedKey) = last'.arg]_vars

\* C9: the registry is never empty and the threshold is one of its keys.
C9_ThresholdRegistered == Len(levels) > 0 /\ Has(levels, level)

\* C9's case: a log_to_all_levels that ended in an error.
C9_Witness ==
    /\ last.op = "log_to_all_levels"
    /\ raised.kind = "KeyError"
    /\ adds > 0
    /\ Has(levels, level)

\* C10: while add_level runs in another thread, the names with a per-level
\* callable are the registry's keys at every point, and no callable a reader
\* obtained fails to find its level.
C10_AtomicRegistrySwap ==
    /\ KeySet(log_funcs) = KeySet(levels)
    /\ ~(last.op = "call" /\ raised.kind = "KeyError" /\ raised.msg[1] = "levels")

====
